---- MODULE Spec2Model ----
(***************************************************************************)
(* Model of chopper_controller.py: the CHOPPER class, a command/response   *)
(* driver for a Thorlabs optical chopper on a serial line.                 *)
(*                                                                         *)
(* Byte strings are sequences of one-character strings.  Python floats are *)
(* integers counting hundredths (63.5 is 6350), so that int() truncation,  *)
(* str() rendering and float() parsing are computed, not assumed.          *)
(***************************************************************************)
EXTENDS Integers, Sequences, FiniteSets, TLC

VARIABLES
    phase,      \* "init": inside __init__ before Get.all(); "ready"; "failed"
    ser,        \* the serial port: [is_open, in_waiting (unread bytes), releases]
    Stat,       \* self.Stat, the cache of last observed values
    Range,      \* self._Range, the active ranges
    log,        \* self.log, the logging flag
    log_file,   \* self.log_file, the in-memory log
    sink,       \* the lines save_log has appended to the log file on disk
    last        \* the call that has just ended and not yet returned to the caller:
                \* what it was, how it ended, its I/O

vars == <<phase, ser, Stat, Range, log, log_file, sink, last>>

\* Python None; a value v that is present is <<v>>
None == <<>>

(***************************************************************************)
(* Bounds of the exploration.                                              *)
(***************************************************************************)
\* calls are explored from states with at most this many unread bytes in the port
MaxPending == 1
\* calls are explored from states with at most this many log lines, in memory
\* and on disk together
MaxLines == 0

(***************************************************************************)
(* Python numbers and strings.                                             *)
(***************************************************************************)
\* one unit of a modelled float is 1/Hundred
Hundred == 100

Min(a, b) == IF a < b THEN a ELSE b
Max(a, b) == IF a > b THEN a ELSE b

DigitChars == <<"0", "1", "2", "3", "4", "5", "6", "7", "8", "9">>
IsDigit(c) == \E i \in 1..10 : DigitChars[i] = c
DigitVal(c) == (CHOOSE i \in 1..10 : DigitChars[i] = c) - 1
IsSpace(c) == c \in {" ", "\r", "\n", "\t"}

\* str(n) of a natural number
RECURSIVE NatStr(_)
NatStr(n) == IF n < 10 THEN <<DigitChars[n + 1]>>
             ELSE NatStr(n \div 10) \o <<DigitChars[(n % 10) + 1]>>

\* str(i) of a Python int
IntStr(i) == IF i < 0 THEN <<"-">> \o NatStr(-i) ELSE NatStr(i)

\* int(x) of a Python float: truncation toward zero
PyInt(x) == IF x >= 0 THEN x \div Hundred ELSE -((-x) \div Hundred)

\* str(x) of a Python float: shortest rendering, always with a fractional part
FloatStr(x) ==
    LET a    == IF x < 0 THEN -x ELSE x
        frac == a % Hundred
        fs   == IF frac % 10 = 0 THEN <<DigitChars[(frac \div 10) + 1]>>
                ELSE <<DigitChars[(frac \div 10) + 1], DigitChars[(frac % 10) + 1]>>
    IN  (IF x < 0 THEN <<"-">> ELSE <<>>) \o NatStr(a \div Hundred) \o <<".">> \o fs

\* a faulty slice: s[start:], the three trailing bytes kept
SliceKeepsTrailer(s, start) ==
    IF start >= Len(s) THEN <<>> ELSE SubSeq(s, start + 1, Len(s))

\* s[start:-3] for start >= 0
SliceDrop3(s, start) ==
    LET n  == Len(s)
        lo == Min(start, n)
        hi == Max(n - 3, 0)
    IN  IF lo >= hi THEN <<>> ELSE SubSeq(s, lo + 1, hi)

\* s.strip()
RECURSIVE LStrip(_)
LStrip(s) == IF s # <<>> /\ IsSpace(Head(s)) THEN LStrip(Tail(s)) ELSE s
RECURSIVE RStrip(_)
RStrip(s) == IF s # <<>> /\ IsSpace(s[Len(s)]) THEN RStrip(SubSeq(s, 1, Len(s) - 1)) ELSE s

\* value of a digit string, most significant first
RECURSIVE DigitsVal(_)
DigitsVal(s) == IF s = <<>> THEN 0
                ELSE DigitsVal(SubSeq(s, 1, Len(s) - 1)) * 10 + DigitVal(s[Len(s)])

\* float(s): <<value>>, or None when s is no number (ValueError).  Accepts
\* surrounding whitespace, a sign, digits with an optional point.  Exponents,
\* inf and nan cannot be formed from the bytes of this protocol and are not
\* accepted.  Digits beyond the hundredths are dropped.
Decimal(ip, fp) == DigitsVal(ip) * Hundred + DigitsVal(SubSeq(fp \o <<"0", "0">>, 1, 2))

SplitAt(body, p) == Decimal(SubSeq(body, 1, p - 1), SubSeq(body, p + 1, Len(body)))

PointAt(body) ==
    IF \E i \in 1..Len(body) : body[i] = "."
    THEN CHOOSE i \in 1..Len(body) : body[i] = "."
    ELSE Len(body) + 1

IsDecimal(body) ==
    /\ Cardinality({i \in 1..Len(body) : body[i] = "."}) <= 1
    /\ \A i \in 1..Len(body) : body[i] = "." \/ IsDigit(body[i])
    /\ \E i \in 1..Len(body) : IsDigit(body[i])

Unsigned(body) == IF IsDecimal(body) THEN <<SplitAt(body, PointAt(body))>> ELSE None

Negated(v) == IF v = None THEN None ELSE <<-v[1]>>

Signed(t) ==
    IF t = <<>> THEN None
    ELSE IF Head(t) = "-" THEN Negated(Unsigned(Tail(t)))
    ELSE IF Head(t) = "+" THEN Unsigned(Tail(t))
    ELSE Unsigned(t)

PyFloat(s) == Signed(RStrip(LStrip(s)))

\* the float n.0
Fl(n) == n * Hundred

(***************************************************************************)
(* Class constants and commands.                                           *)
(***************************************************************************)
\* self._Bladerange, in the order of _blades
Bladerange == << <<Fl(1), Fl(99)>>,    <<Fl(0), Fl(0)>>,      <<Fl(20), Fl(1000)>>,
                 <<Fl(30), Fl(1500)>>, <<Fl(60), Fl(3000)>>,  <<Fl(120), Fl(6000)>>,
                 <<Fl(0), Fl(0)>>,     <<Fl(10), Fl(500)>> >>

\* tuple[i] as Python indexes a tuple: negative i counts from the end
PyIndexOk(t, i) == -Len(t) <= i /\ i < Len(t)
PyIndex(t, i) == IF i >= 0 THEN t[i + 1] ELSE t[Len(t) + i + 1]

\* a faulty table of ranges: the blade range reaches the eighth blade
InitRange_Blade7 == [intfreq |-> <<Fl(1), Fl(1000)>>, blade |-> <<Fl(0), Fl(7)>>, ref |-> <<Fl(0), Fl(1)>>]

\* self._Range as __init__ sets it
InitRange == [intfreq |-> <<Fl(1), Fl(1000)>>, blade |-> <<Fl(0), Fl(6)>>, ref |-> <<Fl(0), Fl(1)>>]
\* self.Stat as __init__ sets it
InitStat == [status |-> None, intfreq |-> None, exfreq |-> None, blade |-> None, ref |-> None]

CmdFreqQ   == <<"f", "r", "e", "q", "?", "\r">>
CmdBladeQ  == <<"b", "l", "a", "d", "e", "?", "\r">>
CmdRefQ    == <<"r", "e", "f", "?", "\r">>
CmdEnableQ == <<"e", "n", "a", "b", "l", "e", "?", "\r">>
CmdInputQ  == <<"i", "n", "p", "u", "t", "?", "\r">>
CmdFreqSet(value)  == <<"f", "r", "e", "q", "=">> \o FloatStr(value) \o <<"\r">>
CmdBladeSet(value) == <<"b", "l", "a", "d", "e", "=">> \o IntStr(PyInt(value)) \o <<"\r">>
CmdRefSet(value)   == <<"r", "e", "f", "=">> \o IntStr(PyInt(value)) \o <<"\r">>
CmdStart == <<"e", "n", "a", "b", "l", "e", "=", "1", "\r">>
CmdStop  == <<"e", "n", "a", "b", "l", "e", "=", "0", "\r">>
CmdWake  == <<"\r">>

\* the byte budget of every read after a command
ReadBudget == 15
\* the byte budget of the read in __init__
WakeBudget == 100

(***************************************************************************)
(* The chopper at the other end of the line.  It answers a query with the  *)
(* echo of the command, the value and a three byte trailer; it may also    *)
(* stay silent or be cut short by the read timeout.  A reply is the bytes  *)
(* it sends and the value it reports (None when it reports none).          *)
(***************************************************************************)
Trailer == <<"\r", ">", " ">>
Prompt  == <<">", " ">>

DeviceValues(command) ==
    CASE command = CmdEnableQ -> { <<"0">>, <<"1">> }
      [] command = CmdFreqQ   -> { <<"6", "3", ".", "0", "0">>, <<"6", "0", "0", "0", ".", "0", "0">> }
      [] command = CmdInputQ  -> { <<"5", "0">> }
      [] command = CmdBladeQ  -> { <<"0">>, <<"1">>, <<"5">>, <<"7">>, <<"8">> }
      [] command = CmdRefQ    -> { <<"0">>, <<"1">> }

QueryReplies(command) ==
    { [bytes |-> command \o v \o Trailer, val |-> PyFloat(v)] : v \in DeviceValues(command) }
    \cup { [bytes |-> <<>>, val |-> None],
           [bytes |-> command \o <<"5", "\r">>, val |-> None] }

\* the acknowledgement of a set command, start or stop: the echo and the
\* prompt, or nothing
SetReplies(command) ==
    { [bytes |-> command \o Prompt, val |-> None], [bytes |-> <<>>, val |-> None] }

WakeReplies == { [bytes |-> Prompt, val |-> None], [bytes |-> <<>>, val |-> None] }

(***************************************************************************)
(* A call runs on a frame m: the object's fields it may change, the bytes  *)
(* waiting in the port, what it wrote and read so far, and how it ends.    *)
(***************************************************************************)
NoExc == "none"

Frame == [rx |-> ser.in_waiting, Stat |-> Stat, Range |-> Range, log_file |-> log_file,
          tx |-> <<>>, rd |-> <<>>, rep |-> <<>>,
          exc |-> NoExc, carried |-> None, ret |-> None]

Raise(m, e, v) == [m EXCEPT !.exc = e, !.carried = v, !.ret = None]

\* serial.Serial.write: fails on a closed port; the chopper's reply arrives
\* in the port's input buffer
SerWrite(m, data, reply) ==
    IF ~ser.is_open THEN Raise(m, "SerialException", None)
    ELSE [m EXCEPT !.tx = Append(@, data), !.rx = @ \o reply.bytes, !.rep = Append(@, reply.val)]

\* serial.Serial.read(size): the bytes that arrived within the timeout, at most size
ReadData(m, size) == SubSeq(m.rx, 1, Min(size, Len(m.rx)))
SerRead(m, size) ==
    [m EXCEPT !.rx = SubSeq(@, Min(size, Len(@)) + 1, Len(@)), !.rd = Append(@, ReadData(m, size))]

\* str(datetime.now()).split('.')[0]: the clock reading, which the model does
\* not tell apart from one instant to the next
Date == "date"

MarkRead  == <<"<", "<", "<", " ">>
MarkWrite == <<">", ">", ">", " ">>

_log_write(m, string, mode) ==
    IF log = TRUE
    THEN [m EXCEPT !.log_file = Append(@, <<(IF mode = "read" THEN MarkRead ELSE MarkWrite) \o string, Date>>)]
    ELSE m

\* rlvalue = float(...): the ValueError of float(), or the value to return
Parsed(m, rlvalue) ==
    IF rlvalue = None THEN Raise(m, "ValueError:float", None) ELSE [m EXCEPT !.ret = rlvalue]

\* after the write of a query, unless it raised: read 15, log what was read,
\* slice it and parse it
Answer(m, command) ==
    IF m.exc # NoExc THEN m
    ELSE Parsed(_log_write(SerRead(m, ReadBudget), ReadData(m, ReadBudget), "read"),
                PyFloat(SliceDrop3(ReadData(m, ReadBudget), Len(command))))

\* the body every get_* shares: log, write, read 15, log, slice, float()
Query(m, command, reply) ==
    Answer(SerWrite(_log_write(m, command, "write"), command, reply), command)

\* a faulty store: whatever was queried lands in the internal frequency
Store_Intfreq(q, field) == IF q.exc # NoExc THEN q ELSE [q EXCEPT !.Stat.intfreq = q.ret]

\* self.Stat = self.Stat._replace(<field>=rlvalue), reached when nothing raised
Store(q, field) == IF q.exc # NoExc THEN q ELSE [q EXCEPT !.Stat[field] = q.ret]

\* self._Range = self._Range._replace(intfreq=self._Bladerange[int(rlvalue)]),
\* reached when nothing raised
SetRange(q) ==
    IF q.exc # NoExc THEN q
    ELSE IF PyIndexOk(Bladerange, PyInt(q.ret[1]))
         THEN [q EXCEPT !.Range.intfreq = PyIndex(Bladerange, PyInt(q.ret[1]))]
         ELSE Raise(q, "IndexError", None)

get_intfreq(m, reply) == Store(Query(m, CmdFreqQ, reply), "intfreq")

\* a faulty get_blade: the blade is cached and returned, the range stays
get_blade_KeepsRange(m, reply) == Store(Query(m, CmdBladeQ, reply), "blade")

get_blade(m, reply) == SetRange(Store(Query(m, CmdBladeQ, reply), "blade"))

get_ref(m, reply) == Store(Query(m, CmdRefQ, reply), "ref")

get_status(m, reply) == Store(Query(m, CmdEnableQ, reply), "status")

get_exfreq(m, reply) == Store(Query(m, CmdInputQ, reply), "exfreq")

\* a faulty range check: the upper end is not looked at
OutOfRange_LowerOnly(value, range) == value < range[1]

\* the range check of every set_*
OutOfRange(value, range) == value < range[1] \/ value > range[2]

\* self.ser.read(15) of a set_*, reached when the write did not raise: what
\* is read is dropped
ReadAndDrop(m) == IF m.exc # NoExc THEN m ELSE SerRead(m, ReadBudget)

\* log, write the set command, read 15
SendSet(m, command, ack) ==
    ReadAndDrop(SerWrite(_log_write(m, command, "write"), command, ack))

\* the get that ends a set_*, reached when sending did not raise
Confirmed(s, q) == IF s.exc # NoExc THEN s ELSE q

set_intfreq(m, value, ack, reply) ==
    IF OutOfRange(value, m.Range.intfreq) THEN Raise(m, "ValueError:range", <<value>>)
    ELSE Confirmed(SendSet(m, CmdFreqSet(value), ack),
                   get_intfreq(SendSet(m, CmdFreqSet(value), ack), reply))

\* a faulty set_blade: it ends with the blade query
set_blade_GetsBlade(m, value, ack, reply) ==
    IF OutOfRange(value, m.Range.blade) THEN Raise(m, "ValueError:range", <<value>>)
    ELSE Confirmed(SendSet(m, CmdBladeSet(value), ack),
                   get_blade(SendSet(m, CmdBladeSet(value), ack), reply))

set_blade(m, value, ack, reply) ==
    IF OutOfRange(value, m.Range.blade) THEN Raise(m, "ValueError:range", <<value>>)
    ELSE Confirmed(SendSet(m, CmdBladeSet(value), ack),
                   get_intfreq(SendSet(m, CmdBladeSet(value), ack), reply))

set_ref(m, value, ack, reply) ==
    IF OutOfRange(value, m.Range.ref) THEN Raise(m, "ValueError:range", <<value>>)
    ELSE Confirmed(SendSet(m, CmdRefSet(value), ack),
                   get_ref(SendSet(m, CmdRefSet(value), ack), reply))

start(m, ack) == SerWrite(_log_write(m, CmdStart, "write"), CmdStart, ack)

stop(m, ack) == SerWrite(_log_write(m, CmdStop, "write"), CmdStop, ack)

\* a faulty order: the two frequencies swapped
GetOrder_Swapped == <<"status", "exfreq", "intfreq", "blade", "ref">>

\* self.Get[:-1]: the five getters in the order of the _query tuple
GetOrder == <<"status", "intfreq", "exfreq", "blade", "ref">>

GetCommand(name) ==
    CASE name = "status"  -> CmdEnableQ
      [] name = "intfreq" -> CmdFreqQ
      [] name = "exfreq"  -> CmdInputQ
      [] name = "blade"   -> CmdBladeQ
      [] name = "ref"     -> CmdRefQ

CallGet(name, m, reply) ==
    CASE name = "status"  -> get_status(m, reply)
      [] name = "intfreq" -> get_intfreq(m, reply)
      [] name = "exfreq"  -> get_exfreq(m, reply)
      [] name = "blade"   -> get_blade(m, reply)
      [] name = "ref"     -> get_ref(m, reply)

\* the frames the loop of get_all can end in, over every reply of the chopper;
\* an exception ends the loop
RECURSIVE RunGets(_, _)
RunGets(m, names) ==
    IF names = <<>> THEN {m}
    ELSE UNION { IF m1.exc # NoExc THEN {m1} ELSE RunGets(m1, Tail(names)) :
                 m1 \in { CallGet(Head(names), m, r) : r \in QueryReplies(GetCommand(Head(names))) } }

get_all(m) ==
    { IF e.exc # NoExc THEN e ELSE [e EXCEPT !.ret = <<e.Stat>>] : e \in RunGets(m, GetOrder) }

\* a faulty constructor: the line is woken and nothing is queried
init_tail_NoRefresh(m, wake) == {SerRead(SerWrite(m, CmdWake, wake), WakeBudget)}

\* __init__ from the first write on: wake the line, drop up to 100 bytes, Get.all()
init_tail(m, wake) ==
    LET m2 == SerWrite(m, CmdWake, wake)
    IN  IF m2.exc # NoExc THEN {m2} ELSE get_all(SerRead(m2, WakeBudget))

\* a faulty writer: the entries last to first
FormatAll_Reversed(lines) ==
    [i \in 1..Len(lines) |-> <<"[", lines[Len(lines) + 1 - i][1], "] ", lines[Len(lines) + 1 - i][2]>>]

\* "[{}] {}".format(line[0], line[1])
FormatLine(line) == <<"[", line[1], "] ", line[2]>>
RECURSIVE FormatAll(_)
FormatAll(lines) == IF lines = <<>> THEN <<>> ELSE <<FormatLine(Head(lines))>> \o FormatAll(Tail(lines))

(***************************************************************************)
(* The state machine: one action per method call, and the return to the    *)
(* caller.                                                                 *)
(***************************************************************************)
\* the values callers pass, around the bounds of the ranges of the tables
FreqInputs  == { Fl(0), Fl(63), Fl(120), Fl(6000), Fl(6000) + 50 }
BladeInputs == { -50, Fl(5) + 50, Fl(6), Fl(7) }
RefInputs   == { -Fl(1), 50, Fl(1), Fl(1) + 50 }

Outcome(op, arg, exc, carried, ret, tx, rd, rep) ==
    [op |-> op, arg |-> arg, exc |-> exc, carried |-> carried, ret |-> ret,
     tx |-> tx, rd |-> rd, rep |-> rep]

Idle == Outcome("idle", None, NoExc, None, None, <<>>, <<>>, <<>>)

Init ==
    /\ phase = "init"
    /\ ser = [is_open |-> TRUE, in_waiting |-> <<>>, releases |-> 0]
    /\ Stat = InitStat
    /\ Range = InitRange
    /\ log \in BOOLEAN
    /\ log_file = <<>>
    /\ sink = <<>>
    /\ last = Idle

\* the call op(arg) ended in frame m
Commit(op, arg, m) ==
    /\ ser' = [ser EXCEPT !.in_waiting = m.rx]
    /\ Stat' = m.Stat
    /\ Range' = m.Range
    /\ log_file' = m.log_file
    /\ last' = Outcome(op, arg, m.exc, m.carried, m.ret, m.tx, m.rd, m.rep)
    /\ UNCHANGED <<log, sink>>

\* a constructed object between two calls
Between == phase = "ready" /\ last = Idle

\* the unread bytes are the acknowledgement of one start() or stop(), which
\* neither of them reads
UnreadAck == ser.in_waiting \in {CmdStart \o Prompt, CmdStop \o Prompt}

\* the bounds of the exploration: few unread bytes, or those start() or
\* stop() has just left; few log lines
FewUnread == Len(ser.in_waiting) <= MaxPending \/ UnreadAck
FewLines  == Len(log_file) + Len(sink) <= MaxLines
Explored  == FewUnread /\ FewLines

Ready == Between /\ Explored

Construct ==
    /\ phase = "init"
    /\ last = Idle
    /\ \E wake \in WakeReplies : \E m \in init_tail(Frame, wake) :
           /\ Commit("__init__", None, m)
           /\ phase' = IF m.exc = NoExc THEN "ready" ELSE "failed"

\* get_intfreq() may also be the very next call after a set_intfreq that
\* returned a value, the caller still holding that value
FollowsSet ==
    /\ phase = "ready"
    /\ last.op = "set_intfreq" /\ last.exc = NoExc
    /\ Explored

GetIntfreq ==
    /\ Ready \/ FollowsSet
    /\ \E r \in QueryReplies(CmdFreqQ) : Commit("get_intfreq", None, get_intfreq(Frame, r))
    /\ UNCHANGED phase

SetIntfreq ==
    /\ Ready
    /\ \E v \in FreqInputs : \E a \in SetReplies(CmdFreqSet(v)) : \E r \in QueryReplies(CmdFreqQ) :
           Commit("set_intfreq", <<v>>, set_intfreq(Frame, v, a, r))
    /\ UNCHANGED phase

GetBlade ==
    /\ Ready
    /\ \E r \in QueryReplies(CmdBladeQ) : Commit("get_blade", None, get_blade(Frame, r))
    /\ UNCHANGED phase

SetBlade ==
    /\ Ready
    /\ \E v \in BladeInputs : \E a \in SetReplies(CmdBladeSet(v)) : \E r \in QueryReplies(CmdFreqQ) :
           Commit("set_blade", <<v>>, set_blade(Frame, v, a, r))
    /\ UNCHANGED phase

GetRef ==
    /\ Ready
    /\ \E r \in QueryReplies(CmdRefQ) : Commit("get_ref", None, get_ref(Frame, r))
    /\ UNCHANGED phase

SetRef ==
    /\ Ready
    /\ \E v \in RefInputs : \E a \in SetReplies(CmdRefSet(v)) : \E r \in QueryReplies(CmdRefQ) :
           Commit("set_ref", <<v>>, set_ref(Frame, v, a, r))
    /\ UNCHANGED phase

GetStatus ==
    /\ Ready
    /\ \E r \in QueryReplies(CmdEnableQ) : Commit("get_status", None, get_status(Frame, r))
    /\ UNCHANGED phase

GetExfreq ==
    /\ Ready
    /\ \E r \in QueryReplies(CmdInputQ) : Commit("get_exfreq", None, get_exfreq(Frame, r))
    /\ UNCHANGED phase

Start ==
    /\ Ready
    /\ \E a \in SetReplies(CmdStart) : Commit("start", None, start(Frame, a))
    /\ UNCHANGED phase

Stop ==
    /\ Ready
    /\ \E a \in SetReplies(CmdStop) : Commit("stop", None, stop(Frame, a))
    /\ UNCHANGED phase

GetAll ==
    /\ Ready
    /\ \E m \in get_all(Frame) : Commit("get_all", None, m)
    /\ UNCHANGED phase

\* close(): serial.Serial.close releases an open port and does nothing on a
\* closed one; the unread bytes are gone with the port
Close ==
    /\ Ready
    /\ ser' = [is_open |-> FALSE, in_waiting |-> <<>>,
               releases |-> IF ser.is_open THEN ser.releases + 1 ELSE ser.releases]
    /\ last' = Outcome("close", None, NoExc, None, None, <<>>, <<>>, <<>>)
    /\ UNCHANGED <<phase, Stat, Range, log, log_file, sink>>

\* save_log(file): open(file, "a") may fail; else every entry is written and
\* the log is cleared
SaveLog ==
    /\ Between /\ FewUnread
    /\ \E opened \in BOOLEAN :
           /\ sink' = IF opened THEN sink \o FormatAll(log_file) ELSE sink
           /\ log_file' = IF opened THEN <<>> ELSE log_file
           /\ last' = Outcome("save_log", None, IF opened THEN NoExc ELSE "IOError",
                              None, None, <<>>, <<>>, <<>>)
    /\ UNCHANGED <<phase, ser, Stat, Range, log>>

\* chopper.log = True, chopper.log = False
SetLog ==
    /\ Ready
    /\ log' = ~log
    /\ last' = Outcome("log=", <<log'>>, NoExc, None, None, <<>>, <<>>, <<>>)
    /\ UNCHANGED <<phase, ser, Stat, Range, log_file, sink>>

\* the call returns (or raises) to the caller
Return ==
    /\ last # Idle
    /\ last' = Idle
    /\ UNCHANGED <<phase, ser, Stat, Range, log, log_file, sink>>

Next ==
    \/ Construct
    \/ GetIntfreq \/ SetIntfreq
    \/ GetBlade \/ SetBlade
    \/ GetRef \/ SetRef
    \/ GetStatus \/ GetExfreq
    \/ Start \/ Stop
    \/ GetAll
    \/ Close
    \/ SaveLog
    \/ SetLog
    \/ Return

Spec == Init /\ [][Next]_vars

(***************************************************************************)
(* Properties.                                                             *)
(***************************************************************************)
SetOps == {"set_intfreq", "set_blade", "set_ref"}
GetOps == {"get_intfreq", "get_blade", "get_ref", "get_status", "get_exfreq"}
DeviceOps == SetOps \cup GetOps \cup {"start", "stop", "get_all"}

\* this step is a call of op
Called(op) == last'.op = op /\ last' # last

\* the range a set_* validates against
RangeFor(op, R) ==
    CASE op = "set_intfreq" -> R.intfreq
      [] op = "set_blade"   -> R.blade
      [] op = "set_ref"     -> R.ref

\* the query command of a get_*
CommandOf(op) ==
    CASE op = "get_intfreq" -> CmdFreqQ
      [] op = "get_blade"   -> CmdBladeQ
      [] op = "get_ref"     -> CmdRefQ
      [] op = "get_status"  -> CmdEnableQ
      [] op = "get_exfreq"  -> CmdInputQ

\* C1: a set_* whose value lies outside the active range of its parameter
\* fails with the range error carrying the value, writes and reads nothing,
\* and leaves the cache, the ranges, the log and the port as they were.
C1_OutOfRangeRejected ==
    [][\A op \in SetOps :
         (/\ Called(op)
          /\ \/ last'.arg[1] < RangeFor(op, Range)[1]
             \/ last'.arg[1] > RangeFor(op, Range)[2])
         => /\ last'.exc = "ValueError:range"
            /\ last'.carried = last'.arg
            /\ last'.ret = None
            /\ last'.tx = <<>> /\ last'.rd = <<>>
            /\ Stat' = Stat /\ Range' = Range
            /\ log_file' = log_file /\ sink' = sink
            /\ ser' = ser]_vars

\* C1 witness: with logging on and the port open, a set_* was refused
C1_Witness ==
    /\ last.op \in SetOps
    /\ last.exc = "ValueError:range"
    /\ log = TRUE /\ ser.is_open

\* C2: a get_blade() that returns b leaves the internal-frequency range at
\* the table entry of int(b); set_intfreq accepts v exactly when v lies in
\* the range in force; and that range is replaced by nothing but a blade
\* query that returned.
C2_BladeSetsRange ==
    [][/\ (Called("get_blade") /\ last'.exc = NoExc)
          => /\ PyInt(last'.ret[1]) \in 0..7
             /\ Range'.intfreq = Bladerange[PyInt(last'.ret[1]) + 1]
       /\ Called("set_intfreq")
          => ((last'.exc # "ValueError:range")
              <=> (Range.intfreq[1] <= last'.arg[1] /\ last'.arg[1] <= Range.intfreq[2]))
       /\ (Range'.intfreq # Range.intfreq)
          => /\ last'.op \in {"get_blade", "get_all", "__init__"}
             /\ Stat'.blade # None
             /\ Range'.intfreq = Bladerange[PyInt(Stat'.blade[1]) + 1]]_vars

\* C2 witness: get_blade() observed blade 5, whose range is not the one of
\* construction, and the range in force is (120.0, 6000.0)
C2_Witness ==
    /\ last.op = "get_blade" /\ last.exc = NoExc
    /\ last.ret = <<Fl(5)>>
    /\ Range.intfreq = <<Fl(120), Fl(6000)>>

\* C3: in every state of a constructed object the internal-frequency range
\* is the default while the cached blade is unknown, and otherwise the table
\* entry of the cached blade.
C3_RangeMatchesCachedBlade ==
    phase \in {"init", "ready"}
    => IF Stat.blade = None THEN Range.intfreq = InitRange.intfreq
       ELSE /\ PyInt(Stat.blade[1]) \in 0..7
            /\ Range.intfreq = Bladerange[PyInt(Stat.blade[1]) + 1]

\* C4: a call that fails leaves every cache field and the active ranges as
\* they were when it began.
C4_FailureLeavesCache ==
    [][\A op \in DeviceOps :
         (Called(op) /\ last'.exc # NoExc) => (Stat' = Stat /\ Range' = Range)]_vars

\* C5: set_intfreq(v) with v in the range in force is not refused and writes
\* freq=<v>; when it returns, it has written freq=<v> and then freq?, and the
\* value it returns is the one the chopper reported to that query and is the
\* cached internal frequency; the same holds of get_intfreq(); and a
\* get_intfreq() that directly follows, to which the chopper reports the same
\* value again, returns and caches the value set_intfreq returned.
C5_SetThenGet ==
    [][/\ (/\ Called("set_intfreq")
           /\ Range.intfreq[1] <= last'.arg[1] /\ last'.arg[1] <= Range.intfreq[2])
          => /\ last'.exc # "ValueError:range"
             /\ ser.is_open => (last'.tx # <<>> /\ last'.tx[1] = CmdFreqSet(last'.arg[1]))
       /\ (Called("set_intfreq") /\ last'.exc = NoExc)
          => /\ last'.tx = <<CmdFreqSet(last'.arg[1]), CmdFreqQ>>
             /\ last'.ret # None
             /\ last'.ret = last'.rep[2]
             /\ Stat'.intfreq = last'.ret
       /\ (Called("get_intfreq") /\ last'.exc = NoExc)
          => /\ last'.tx = <<CmdFreqQ>>
             /\ last'.ret # None
             /\ last'.ret = last'.rep[1]
             /\ Stat'.intfreq = last'.ret
       /\ (/\ last.op = "set_intfreq" /\ last.exc = NoExc
           /\ Called("get_intfreq") /\ last'.exc = NoExc
           /\ last'.rep[1] = last.rep[2])
          => /\ last'.ret = last.ret
             /\ Stat'.intfreq = last.ret]_vars

\* C6: on a closed port every call that talks to the chopper (a set_* with a
\* value in range) fails with the port's error, writes and reads nothing and
\* changes neither the cache nor the log; and the port is released at most
\* once.
C6_ClosedPortFailsFast ==
    [][/\ \A op \in DeviceOps :
            (/\ ~ser.is_open
             /\ Called(op)
             /\ op \in SetOps => /\ RangeFor(op, Range)[1] <= last'.arg[1]
                                 /\ last'.arg[1] <= RangeFor(op, Range)[2])
            => /\ last'.exc = "SerialException"
               /\ last'.tx = <<>> /\ last'.rd = <<>>
               /\ Stat' = Stat /\ Range' = Range
               /\ log_file' = log_file
       /\ ser'.releases <= 1
       /\ Called("close") => (~ser'.is_open /\ ser'.releases = 1)]_vars

\* the log entries of one exchange after another: the command sent, then the
\* bytes received when the exchange had a read
RECURSIVE ExchangeLog(_, _)
ExchangeLog(tx, rd) ==
    IF tx = <<>> THEN <<>>
    ELSE <<<<MarkWrite \o Head(tx), Date>>>>
         \o (IF rd = <<>> THEN <<>> ELSE <<<<MarkRead \o Head(rd), Date>>>>)
         \o ExchangeLog(Tail(tx), IF rd = <<>> THEN <<>> ELSE Tail(rd))

\* C7: with logging on, a call on an open port appends to the log one sent
\* entry for every write and one received entry for every read, in the order
\* of the I/O; with logging off no call appends anything.
C7_LogsEveryExchange ==
    [][\A op \in DeviceOps :
         (Called(op) /\ ser.is_open)
         => log_file' = IF log = TRUE THEN log_file \o ExchangeLog(last'.tx, last'.rd)
                        ELSE log_file]_vars

C10_ShortReplyFails ==
    [][\A op \in GetOps :
         (/\ Called(op)
          /\ Len(last'.rd) = 1
          /\ Len(last'.rd[1]) < Len(CommandOf(op)) + 3)
         => /\ last'.exc = "ValueError:float"
            /\ last'.ret = None
            /\ Stat' = Stat /\ Range' = Range]_vars

\* C10 witness: get_blade() read a reply one byte short of the minimum,
\* digit included, and failed
C10_Witness ==
    /\ last.op = "get_blade"
    /\ last.rd = <<CmdBladeQ \o <<"5", "\r">>>>
    /\ last.exc = "ValueError:float"

\* the cache fields
Fields == {"status", "intfreq", "exfreq", "blade", "ref"}

\* the cache fields the getter behind a call assigns
OwnFields(op) ==
    CASE op = "get_status"  -> {"status"}
      [] op = "get_intfreq" -> {"intfreq"}
      [] op = "get_exfreq"  -> {"exfreq"}
      [] op = "get_blade"   -> {"blade"}
      [] op = "get_ref"     -> {"ref"}
      [] op = "set_intfreq" -> {"intfreq"}
      [] op = "set_blade"   -> {"intfreq"}
      [] op = "set_ref"     -> {"ref"}
      [] op \in {"get_all", "__init__"} -> Fields
      [] OTHER -> {}

\* the query a set_* ends with
ConfirmingQuery(op) ==
    CASE op = "set_intfreq" -> CmdFreqQ
      [] op = "set_blade"   -> CmdFreqQ
      [] op = "set_ref"     -> CmdRefQ

\* C11: a cache field changes only in a call whose getter is the one of that
\* field (get_all and the constructor run all five); start, stop, close,
\* save_log and the log switch change none; the ranges change only in a blade
\* query, and only the internal-frequency range; a set_* that changed the
\* cache has written its command and then its query, has returned, and the
\* changed field holds the value it returned.
C11_OwnFieldOnly ==
    [][/\ \A f \in Fields : (Stat'[f] # Stat[f]) => (last' # last /\ f \in OwnFields(last'.op))
       /\ (Range' # Range)
          => /\ last' # last /\ last'.op \in {"get_blade", "get_all", "__init__"}
             /\ Range'.blade = Range.blade /\ Range'.ref = Range.ref
       /\ \A op \in SetOps :
            (Called(op) /\ Stat' # Stat)
            => /\ last'.exc = NoExc
               /\ Len(last'.tx) = 2 /\ last'.tx[2] = ConfirmingQuery(op)
               /\ \A f \in OwnFields(op) : Stat'[f] = last'.ret]_vars

\* C11 witness: set_ref(0.5) wrote ref=0, the chopper reported 1.0 to ref?, and
\* the cached reference mode is the reported 1.0
C11_Witness ==
    /\ last.op = "set_ref" /\ last.exc = NoExc
    /\ last.arg = <<50>>
    /\ last.tx = <<CmdRefSet(50), CmdRefQ>>
    /\ last.ret = <<Fl(1)>>
    /\ Stat.ref = <<Fl(1)>>

C13_PlaceholderAlwaysFails ==
    [][(/\ Called("set_intfreq")
        /\ Stat.blade # None
        /\ PyInt(Stat.blade[1]) \in {1, 6}
        /\ Range.intfreq = <<Fl(0), Fl(0)>>)
       => /\ last'.exc = "ValueError:range"
          /\ last'.tx = <<>>]_vars

\* C14: a call on an open port reads after every command it writes, so that
\* it ends with as many reads as writes; and a get_* whose query the chopper
\* answered parses that answer: it does not fail in float(), and the value it
\* returns is the answered one.
C14_WriteThenRead ==
    [][\A op \in DeviceOps :
         (Called(op) /\ ser.is_open)
         => /\ Len(last'.rd) = Len(last'.tx)
            /\ (op \in GetOps /\ last'.rep # <<>> /\ last'.rep[1] # None)
               => /\ last'.exc # "ValueError:float"
                  /\ last'.exc = NoExc => last'.ret = last'.rep[1]]_vars

\* C15: a get_* called on a port with nothing unread, to whose query the
\* chopper sends the echo, a value and the trailer, reads the reply whole in
\* its one read (what it read ends with the trailer), decodes the value sent
\* into its cache field, and leaves nothing unread in the port.
C15_BudgetSuffices ==
    [][\A op \in GetOps :
         (/\ Called(op)
          /\ ser.is_open /\ ser.in_waiting = <<>>
          /\ last'.rep # <<>> /\ last'.rep[1] # None)
         => /\ Len(last'.rd) = 1
            /\ Len(last'.rd[1]) <= ReadBudget
            /\ Len(last'.rd[1]) >= Len(CommandOf(op)) + 3
            /\ SubSeq(last'.rd[1], Len(last'.rd[1]) - 2, Len(last'.rd[1])) = Trailer
            /\ \A f \in OwnFields(op) : Stat'[f] = last'.rep[1]
            /\ ser'.in_waiting = <<>>]_vars

\* C16: a constructor that returns has woken the line and run the five
\* queries of get_all(), so that every cache field is known and the
\* internal-frequency range is the table entry of the blade it observed; a
\* constructed object never has an unknown cache field nor the constructor's
\* first range (1.0, 1000.0); and no step makes a known field unknown.
C16_ConstructionRefreshes ==
    [][/\ (Called("__init__") /\ last'.exc = NoExc)
          => /\ phase' = "ready"
             /\ last'.tx = <<CmdWake, CmdEnableQ, CmdFreqQ, CmdInputQ, CmdBladeQ, CmdRefQ>>
             /\ \A f \in Fields : Stat'[f] # None
             /\ PyInt(Stat'.blade[1]) \in 0..7
             /\ Range'.intfreq = Bladerange[PyInt(Stat'.blade[1]) + 1]
       /\ (phase' = "ready")
          => /\ \A f \in Fields : Stat'[f] # None
             /\ Range'.intfreq # InitRange.intfreq
       /\ \A f \in Fields : (Stat[f] # None) => (Stat'[f] # None)]_vars

\* C16 witness: the constructor returned, having observed blade 5, and the
\* range is (120.0, 6000.0)
C16_Witness ==
    /\ last.op = "__init__" /\ last.exc = NoExc
    /\ phase = "ready"
    /\ Stat.blade = <<Fl(5)>>
    /\ Stat.status # None /\ Stat.ref # None
    /\ Range.intfreq = <<Fl(120), Fl(6000)>>

\* C17: the ranges of the blade and of the reference mode are (0.0, 6.0) and
\* (0.0, 1.0) in every state; set_blade(v) is refused exactly when v < 0 or
\* v > 6, and set_ref(v) exactly when v < 0 or v > 1; so no set_blade writes
\* blade=7, whatever blade the chopper has reported.
C17_BladeAndRefRangesFixed ==
    [][/\ Range.blade = <<Fl(0), Fl(6)>> /\ Range'.blade = <<Fl(0), Fl(6)>>
       /\ Range.ref = <<Fl(0), Fl(1)>> /\ Range'.ref = <<Fl(0), Fl(1)>>
       /\ Called("set_blade")
          => /\ (last'.exc = "ValueError:range") <=> (last'.arg[1] < Fl(0) \/ last'.arg[1] > Fl(6))
             /\ \A k \in 1..Len(last'.tx) : last'.tx[k] # <<"b", "l", "a", "d", "e", "=", "7", "\r">>
       /\ Called("set_ref")
          => ((last'.exc = "ValueError:range") <=> (last'.arg[1] < Fl(0) \/ last'.arg[1] > Fl(1)))]_vars

\* C17 witness: blade 7, reported by the chopper, is cached with its range
\* (10.0, 500.0) in force, and set_blade(7.0) was refused
C17_Witness ==
    /\ last.op = "set_blade"
    /\ last.arg = <<Fl(7)>>
    /\ last.exc = "ValueError:range"
    /\ last.tx = <<>>
    /\ Stat.blade = <<Fl(7)>>
    /\ Range.intfreq = <<Fl(10), Fl(500)>>

====
